---- MODULE Spec2Model ----
(***************************************************************************)
(* Model of src/arithmetic-interpreter.py: the Lexer (a cursor over the    *)
(* input line that hands out tokens), the recursive-descent Interpreter    *)
(* (expr / term / factor with one token of look-ahead) and the main loop   *)
(* that reads a line, evaluates it and prints the result.                  *)
(*                                                                         *)
(* A text is a sequence of one-character strings.  Python's None is the    *)
(* string "None" where a character is expected, NoneV where a number is    *)
(* expected and NoneToken where a Token is expected.  A Python int is the  *)
(* value [k |-> "int"], a Python float the value [k |-> "float"] holding   *)
(* the exact quotient n/d it stands for (rounding is not modelled).  A     *)
(* call that raises ends the process (nothing in the source catches), a    *)
(* call of get_token that never leaves its while loop leaves the process   *)
(* in pc = "loop" for ever.                                                *)
(***************************************************************************)
EXTENDS Integers, Sequences, FiniteSets, TLC

VARIABLES
    user_input,     \* main: the line read by input("> ")
    lexer,          \* the Lexer object: user_input, pos, current_char
    current_token,  \* Interpreter.current_token, the look-ahead
    stack,          \* the active calls of expr / term / factor, innermost last
    ret,            \* the value handed back by the call that returned last
    pc,             \* where the process is: input, lexer, interp, expr, print, raised, loop
    err,            \* the exception that ended the process, "None" while there is none
    output,         \* main: output, the value expr() handed to print
    prev,           \* history: the line evaluated before this one and what was printed
    token,          \* the token the last direct get_token call returned
    calls           \* the number of direct get_token calls made so far

vars == <<user_input, lexer, current_token, stack, ret, pc, err, output, prev, token, calls>>

-----------------------------------------------------------------------------
(* Bounds of the model *)

MaxLen == 5
MaxCalls == 6

Alphabet == {"0", "2", "+", "-", "*", "/", "(", ")", " ", "a"}

\* every text of at most MaxLen characters of the alphabet
Texts == UNION {[1..n -> Alphabet] : n \in 0..MaxLen}

-----------------------------------------------------------------------------
(* Characters *)

None == "None"

isspace(c) == c \in {" ", "\t"}

isdigit(c) == c \in {"0", "1", "2", "3", "4", "5", "6", "7", "8", "9"}

DigitValue(c) ==
    CASE c = "0" -> 0 [] c = "1" -> 1 [] c = "2" -> 2 [] c = "3" -> 3
      [] c = "4" -> 4 [] c = "5" -> 5 [] c = "6" -> 6 [] c = "7" -> 7
      [] c = "8" -> 8 [] c = "9" -> 9

\* int(integer_value): the decimal value of a non-empty run of digits
RECURSIVE int(_)
int(s) ==
    IF Len(s) = 1 THEN DigitValue(s[1])
    ELSE 10 * int(SubSeq(s, 1, Len(s) - 1)) + DigitValue(s[Len(s)])

-----------------------------------------------------------------------------
(* Values and tokens *)

NoneV == [k |-> "None", n |-> 0, d |-> 1, s |-> ""]
IntV(i) == [k |-> "int", n |-> i, d |-> 1, s |-> ""]
StrV(c) == [k |-> "str", n |-> 0, d |-> 1, s |-> c]

Abs(i) == IF i < 0 THEN -i ELSE i

RECURSIVE Gcd(_, _)
Gcd(a, b) == IF b = 0 THEN a ELSE Gcd(b, a % b)

\* the float that stands for the quotient n/d, d # 0
FloatV(n, d) ==
    LET g == Gcd(Abs(n), Abs(d))
        sg == IF d < 0 THEN -1 ELSE 1
    IN [k |-> "float", n |-> sg * (n \div g), d |-> sg * (d \div g), s |-> ""]

IsNumber(v) == v.k \in {"int", "float"}

Token(token_type, value) == [token_type |-> token_type, value |-> value]

NoneToken == Token("None", NoneV)

TokenTypes == {"INTEGER", "PLUS", "MINUS", "MULTIPLY", "DIVIDE", "EOF", "LPAREN", "RPAREN"}

-----------------------------------------------------------------------------
(* Lexer *)

NoLexer == [user_input |-> <<>>, pos |-> 0, current_char |-> None]

\* Lexer.__init__: user_input[0] raises IndexError on the empty text
Lexer(text) ==
    IF Len(text) = 0
    THEN [outcome |-> "IndexError", lexer |-> NoLexer]
    ELSE [outcome |-> "return",
          lexer |-> [user_input |-> text, pos |-> 0, current_char |-> text[1]]]

move_forward(lx) ==
    LET p == lx.pos + 1 IN
    [lx EXCEPT !.pos = p,
               !.current_char = IF ~(p >= Len(lx.user_input))
                                THEN lx.user_input[p + 1]
                                ELSE None]

RECURSIVE skip_whitespace(_)
skip_whitespace(lx) ==
    IF lx.current_char # None /\ isspace(lx.current_char)
    THEN skip_whitespace(move_forward(lx))
    ELSE lx

\* the while loop of Lexer.integer: the lexer after it and the digits collected
RECURSIVE integer_loop(_, _)
integer_loop(lx, integer_value) ==
    IF lx.current_char # None /\ isdigit(lx.current_char)
    THEN integer_loop(move_forward(lx), Append(integer_value, lx.current_char))
    ELSE [lexer |-> lx, integer_value |-> integer_value]

\* integer with an if in place of its while: one digit is consumed
integer_single_digit(lx) ==
    [lexer |-> move_forward(lx), token |-> Token("INTEGER", IntV(int(<<lx.current_char>>)))]

integer(lx) ==
    LET r == integer_loop(lx, <<>>) IN
    [lexer |-> r.lexer, token |-> Token("INTEGER", IntV(int(r.integer_value)))]

is_end_of_file(lx) ==
    IF lx.pos >= Len(lx.user_input) THEN Token("EOF", NoneV) ELSE NoneToken

operations ==
    [c \in {"+", "-", "*", "/", "(", ")"} |->
        CASE c = "+" -> "PLUS" [] c = "-" -> "MINUS" [] c = "*" -> "MULTIPLY"
          [] c = "/" -> "DIVIDE" [] c = "(" -> "LPAREN" [] c = ")" -> "RPAREN"]

\* Lexer.get_token.  outcome is "return" (token is the result), the name of the
\* exception raised, or "loop": an iteration of the while loop that ends with
\* current_char a character that is no whitespace, no digit and no operator
\* has changed nothing, so every later iteration is the same one.
get_token(lx) ==
    IF lx.current_char # None
    THEN LET s == skip_whitespace(lx) IN
         IF s.current_char = None
         THEN [outcome |-> "AttributeError", lexer |-> s, token |-> NoneToken]
         ELSE IF isdigit(s.current_char)
         THEN LET r == integer(s) IN
              [outcome |-> "return", lexer |-> r.lexer, token |-> r.token]
         ELSE IF s.current_char \in DOMAIN operations
         THEN [outcome |-> "return", lexer |-> move_forward(s),
               token |-> Token(operations[s.current_char], StrV(s.current_char))]
         ELSE [outcome |-> "loop", lexer |-> s, token |-> NoneToken]
    ELSE LET t == is_end_of_file(lx) IN
         IF t # NoneToken
         THEN [outcome |-> "return", lexer |-> lx, token |-> t]
         ELSE [outcome |-> "Exception: get_token()", lexer |-> lx, token |-> NoneToken]

-----------------------------------------------------------------------------
(* Interpreter: eat and the arithmetic of term and expr *)

\* Interpreter.eat(*args): the outcome of the get_token call it makes, or its
\* own exception when the look-ahead is none of args
eat(tok, lx, args) ==
    IF tok.token_type \in args
    THEN get_token(lx)
    ELSE [outcome |-> "Exception: eat()", lexer |-> lx, token |-> tok]

\* result + x, result - x, result * x, result / x as Python computes them:
\* None as an operand is a TypeError (also of None / 0), int / int is a float
Arith(op, a, b) ==
    IF ~IsNumber(a) \/ ~IsNumber(b)
    THEN [outcome |-> "TypeError", value |-> NoneV]
    ELSE LET mk(n, d) == IF a.k = "int" /\ b.k = "int" THEN IntV(n) ELSE FloatV(n, d) IN
         CASE op = "PLUS" ->
                [outcome |-> "return", value |-> mk(a.n * b.d + b.n * a.d, a.d * b.d)]
           [] op = "MINUS" ->
                [outcome |-> "return", value |-> mk(a.n * b.d - b.n * a.d, a.d * b.d)]
           [] op = "MULTIPLY" ->
                [outcome |-> "return", value |-> mk(a.n * b.n, a.d * b.d)]
           [] op = "DIVIDE" ->
                IF b.n = 0
                THEN [outcome |-> "ZeroDivisionError", value |-> NoneV]
                ELSE [outcome |-> "return", value |-> FloatV(a.n * b.d, a.d * b.n)]

\* one active call: the method, the line it is at, its locals result and token
Frame(fn, at) == [fn |-> fn, at |-> at, result |-> NoneV, token |-> NoneToken]

Top == stack[Len(stack)]

WithTop(f) == [stack EXCEPT ![Len(stack)] = f]

At(fn, at) == pc = "expr" /\ stack # <<>> /\ Top.fn = fn /\ Top.at = at

\* the active call goes on, with the stack, the lexer and the look-ahead given
Continue(newStack, lx, tok) ==
    /\ stack' = newStack
    /\ lexer' = lx
    /\ current_token' = tok
    /\ UNCHANGED <<user_input, ret, pc, err, output, prev, token, calls>>

\* the active call returns v; the return of the outermost call, main's
\* interpreter.expr(), assigns output
Return(v, lx, tok) ==
    /\ stack' = SubSeq(stack, 1, Len(stack) - 1)
    /\ ret' = v
    /\ lexer' = lx
    /\ current_token' = tok
    /\ IF Len(stack) = 1
       THEN pc' = "print" /\ output' = v
       ELSE UNCHANGED <<pc, output>>
    /\ UNCHANGED <<user_input, err, prev, token, calls>>

\* an exception unwinds every call and ends the process; a get_token call that
\* never returns leaves every call where it is
Fail(outcome, lx) ==
    /\ lexer' = lx
    /\ pc' = IF outcome = "loop" THEN "loop" ELSE "raised"
    /\ err' = IF outcome = "loop" THEN "None" ELSE outcome
    /\ stack' = IF outcome = "loop" THEN stack ELSE <<>>
    /\ UNCHANGED <<user_input, current_token, ret, output, prev, token, calls>>

-----------------------------------------------------------------------------
(* The state after start-up *)

NoPrev == [user_input |-> <<>>, output |-> NoneV, printed |-> FALSE]

Init ==
    /\ user_input = <<>>
    /\ lexer = NoLexer
    /\ current_token = NoneToken
    /\ stack = <<>>
    /\ ret = NoneV
    /\ pc = "input"
    /\ err = "None"
    /\ output = NoneV
    /\ prev = NoPrev
    /\ token = NoneToken
    /\ calls = 0

-----------------------------------------------------------------------------
(* main *)

\* the line with one more blank, before, inside or after it
Respaced(text) ==
    IF Len(text) >= MaxLen THEN {}
    ELSE {SubSeq(text, 1, i) \o <<" ">> \o SubSeq(text, i + 1, Len(text)) : i \in 0..Len(text)}

\* the lines input("> ") hands over: any first line; after a printed line the
\* empty line or that line with one more blank
Lines == IF prev.printed THEN {<<>>} \cup Respaced(prev.user_input) ELSE Texts

\* main, lines 176-179: read a line, skip an empty one, construct the Lexer
MainInput ==
    /\ pc = "input"
    /\ \E text \in Lines :
        /\ user_input' = text
        /\ IF Len(text) = 0
           THEN UNCHANGED <<lexer, pc, err>>
           ELSE LET r == Lexer(text) IN
                /\ lexer' = r.lexer
                /\ pc' = IF r.outcome = "return" THEN "lexer" ELSE "raised"
                /\ err' = IF r.outcome = "return" THEN err ELSE r.outcome
    /\ UNCHANGED <<current_token, stack, ret, output, prev, token, calls>>

\* main, line 180, Interpreter.__init__: the first token becomes the look-ahead
InterpreterInit ==
    /\ pc = "lexer"
    /\ LET r == get_token(lexer) IN
       IF r.outcome = "return"
       THEN /\ lexer' = r.lexer
            /\ current_token' = r.token
            /\ pc' = "interp"
            /\ UNCHANGED <<user_input, stack, ret, err, output, prev, token, calls>>
       ELSE Fail(r.outcome, r.lexer)

\* main, line 181: the call interpreter.expr()
MainExpr ==
    /\ pc = "interp"
    /\ stack' = <<Frame("expr", "L119")>>
    /\ pc' = "expr"
    /\ UNCHANGED <<user_input, lexer, current_token, ret, err, output, prev, token, calls>>

\* main, line 182: print(output), and back to the prompt
MainPrint ==
    /\ pc = "print"
    /\ prev' = [user_input |-> user_input, output |-> output, printed |-> TRUE]
    /\ pc' = "input"
    /\ UNCHANGED <<user_input, lexer, current_token, stack, ret, err, output, token, calls>>

-----------------------------------------------------------------------------
(* Interpreter.expr *)

\* line 119: the call self.term()
ExprCallTerm ==
    /\ At("expr", "L119")
    /\ Continue(Append(WithTop([Top EXCEPT !.at = "L121"]), Frame("term", "L105")),
                lexer, current_token)

\* lines 119-122: result = <term>, and the bare return when the look-ahead is EOF
ExprAfterTerm ==
    /\ At("expr", "L121")
    /\ IF current_token.token_type = "EOF"
       THEN Return(NoneV, lexer, current_token)
       ELSE Continue(WithTop([Top EXCEPT !.result = ret, !.at = "L124"]),
                     lexer, current_token)

\* lines 124-133: the loop test; eat the operator and call self.term(), or
\* return result
ExprLoop ==
    /\ At("expr", "L124")
    /\ IF current_token.token_type \in {"PLUS", "MINUS"}
       THEN LET e == eat(current_token, lexer, {current_token.token_type}) IN
            IF e.outcome = "return"
            THEN Continue(Append(WithTop([Top EXCEPT !.token = current_token, !.at = "L128"]),
                                 Frame("term", "L105")),
                          e.lexer, e.token)
            ELSE Fail(e.outcome, e.lexer)
       ELSE Return(Top.result, lexer, current_token)

\* lines 128 and 131: result = result + <term>, result = result - <term>
ExprCombine ==
    /\ At("expr", "L128")
    /\ LET a == Arith(Top.token.token_type, Top.result, ret) IN
       IF a.outcome = "return"
       THEN Continue(WithTop([Top EXCEPT !.result = a.value, !.at = "L124"]),
                     lexer, current_token)
       ELSE Fail(a.outcome, lexer)

-----------------------------------------------------------------------------
(* Interpreter.term *)

\* line 105: the call self.factor()
TermCallFactor ==
    /\ At("term", "L105")
    /\ Continue(Append(WithTop([Top EXCEPT !.at = "L106"]), Frame("factor", "L94")),
                lexer, current_token)

\* line 105: result = <factor>
TermAfterFactor ==
    /\ At("term", "L106")
    /\ Continue(WithTop([Top EXCEPT !.result = ret, !.at = "L107"]), lexer, current_token)

\* lines 107-116: the loop test; eat the operator and call self.factor(), or
\* return result
TermLoop ==
    /\ At("term", "L107")
    /\ IF current_token.token_type \in {"MULTIPLY", "DIVIDE"}
       THEN LET e == eat(current_token, lexer, {current_token.token_type}) IN
            IF e.outcome = "return"
            THEN Continue(Append(WithTop([Top EXCEPT !.token = current_token, !.at = "L111"]),
                                 Frame("factor", "L94")),
                          e.lexer, e.token)
            ELSE Fail(e.outcome, e.lexer)
       ELSE Return(Top.result, lexer, current_token)

\* lines 111 and 114: result = result * <factor>, result = result / <factor>
TermCombine ==
    /\ At("term", "L111")
    /\ LET a == Arith(Top.token.token_type, Top.result, ret) IN
       IF a.outcome = "return"
       THEN Continue(WithTop([Top EXCEPT !.result = a.value, !.at = "L107"]),
                     lexer, current_token)
       ELSE Fail(a.outcome, lexer)

-----------------------------------------------------------------------------
(* Interpreter.factor *)

\* lines 94-99: an INTEGER is eaten and its value returned; an LPAREN is eaten
\* and self.expr() called; with any other look-ahead the method falls off its
\* end, which returns None
FactorStart ==
    /\ At("factor", "L94")
    /\ IF current_token.token_type = "INTEGER"
       THEN LET e == eat(current_token, lexer, {"INTEGER"}) IN
            IF e.outcome = "return"
            THEN Return(current_token.value, e.lexer, e.token)
            ELSE Fail(e.outcome, e.lexer)
       ELSE IF current_token.token_type = "LPAREN"
       THEN LET e == eat(current_token, lexer, {"LPAREN"}) IN
            IF e.outcome = "return"
            THEN Continue(Append(WithTop([Top EXCEPT !.token = current_token, !.at = "L100"]),
                                 Frame("expr", "L119")),
                          e.lexer, e.token)
            ELSE Fail(e.outcome, e.lexer)
       ELSE Return(NoneV, lexer, current_token)

\* lines 100-102: result = <expr>, eat the RPAREN, return result
FactorClose ==
    /\ At("factor", "L100")
    /\ LET e == eat(current_token, lexer, {"RPAREN"}) IN
       IF e.outcome = "return"
       THEN Return(ret, e.lexer, e.token)
       ELSE Fail(e.outcome, e.lexer)

-----------------------------------------------------------------------------
(* The program: main driving the Lexer and the Interpreter *)

Next ==
    \/ MainInput
    \/ InterpreterInit
    \/ MainExpr
    \/ MainPrint
    \/ ExprCallTerm
    \/ ExprAfterTerm
    \/ ExprLoop
    \/ ExprCombine
    \/ TermCallFactor
    \/ TermAfterFactor
    \/ TermLoop
    \/ TermCombine
    \/ FactorStart
    \/ FactorClose

Spec == Init /\ [][Next]_vars

-----------------------------------------------------------------------------
(* The Lexer on its own: a caller that constructs it over any text, the      *)
(* empty one included, and calls get_token again and again                   *)

LexerNew ==
    /\ pc = "input"
    /\ \E text \in Texts :
        LET r == Lexer(text) IN
        /\ user_input' = text
        /\ lexer' = r.lexer
        /\ pc' = IF r.outcome = "return" THEN "lexer" ELSE "raised"
        /\ err' = IF r.outcome = "return" THEN err ELSE r.outcome
    /\ UNCHANGED <<current_token, stack, ret, output, prev, token, calls>>

LexerGetToken ==
    /\ pc = "lexer"
    /\ calls < MaxCalls
    /\ LET r == get_token(lexer) IN
        /\ lexer' = r.lexer
        /\ token' = r.token
        /\ pc' = CASE r.outcome = "return" -> "lexer"
                   [] r.outcome = "loop" -> "loop"
                   [] OTHER -> "raised"
        /\ err' = IF r.outcome \in {"return", "loop"} THEN err ELSE r.outcome
    /\ calls' = calls + 1
    /\ UNCHANGED <<user_input, current_token, stack, ret, output, prev>>

NextLexer == LexerNew \/ LexerGetToken

SpecLexer == Init /\ [][NextLexer]_vars

-----------------------------------------------------------------------------
(* Reference definitions the properties are stated with: the tokens of a      *)
(* text and the value of a token sequence under the grammar                   *)
(*   expr := term ((PLUS | MINUS) term)*                                      *)
(*   term := factor ((MULTIPLY | DIVIDE) factor)*                             *)
(*   factor := INTEGER | LPAREN expr RPAREN                                   *)

OperatorChars == {"+", "-", "*", "/", "(", ")"}

Unrecognized(c) == c # None /\ ~isspace(c) /\ ~isdigit(c) /\ c \notin OperatorChars

AllWhitespace(text) == \A i \in 1..Len(text) : isspace(text[i])

\* the length of the longest run of whitespace / of digits that starts right
\* after the first p characters of text
WhitespaceRun(text, p) ==
    CHOOSE n \in 0..(Len(text) - p) :
        /\ \A i \in 1..n : isspace(text[p + i])
        /\ p + n = Len(text) \/ ~isspace(text[p + n + 1])

DigitRun(text, p) ==
    CHOOSE n \in 0..(Len(text) - p) :
        /\ \A i \in 1..n : isdigit(text[p + i])
        /\ p + n = Len(text) \/ ~isdigit(text[p + n + 1])

RefDigit(c) == CHOOSE v \in 0..9 : <<"0", "1", "2", "3", "4", "5", "6", "7", "8", "9">>[v + 1] = c

RECURSIVE RefPow10(_)
RefPow10(k) == IF k = 0 THEN 1 ELSE 10 * RefPow10(k - 1)

\* the number the digits text[p+1 .. p+n] denote
RECURSIVE RefDecimal(_, _, _)
RefDecimal(text, p, n) ==
    IF n = 0 THEN 0
    ELSE RefDigit(text[p + 1]) * RefPow10(n - 1) + RefDecimal(text, p + 1, n - 1)

RefKind(c) ==
    CASE c = "+" -> "PLUS" [] c = "-" -> "MINUS" [] c = "*" -> "MULTIPLY"
      [] c = "/" -> "DIVIDE" [] c = "(" -> "LPAREN" [] c = ")" -> "RPAREN"
      [] OTHER -> "BAD"

\* the tokens of text from its character p+1 on; whitespace separates tokens
RECURSIVE RefTokensFrom(_, _)
RefTokensFrom(text, p) ==
    IF p >= Len(text) THEN <<>>
    ELSE IF isspace(text[p + 1]) THEN RefTokensFrom(text, p + 1)
    ELSE IF isdigit(text[p + 1])
    THEN LET n == DigitRun(text, p) IN
         <<[t |-> "INTEGER", v |-> RefDecimal(text, p, n)]>> \o RefTokensFrom(text, p + n)
    ELSE <<[t |-> RefKind(text[p + 1]), v |-> 0]>> \o RefTokensFrom(text, p + 1)

RefTokens(text) == RefTokensFrom(text, 0)

RefFail == [ok |-> FALSE, exact |-> FALSE, v |-> 0, i |-> 0]

RECURSIVE RefExpr(_, _)
RECURSIVE RefExprRest(_, _, _)
RECURSIVE RefTerm(_, _)
RECURSIVE RefTermRest(_, _, _)
RECURSIVE RefFactor(_, _)

\* each takes the tokens and the index of the next one, and gives: ok, the
\* tokens from there start with the production; exact, no division in it was
\* by zero or left a remainder; v, its value; i, the index after it
RefFactor(toks, i) ==
    IF i > Len(toks) THEN RefFail
    ELSE IF toks[i].t = "INTEGER" THEN [ok |-> TRUE, exact |-> TRUE, v |-> toks[i].v, i |-> i + 1]
    ELSE IF toks[i].t = "LPAREN"
    THEN LET e == RefExpr(toks, i + 1) IN
         IF e.ok /\ e.i <= Len(toks) /\ toks[e.i].t = "RPAREN"
         THEN [e EXCEPT !.i = e.i + 1]
         ELSE RefFail
    ELSE RefFail

RefTermRest(toks, i, acc) ==
    IF i <= Len(toks) /\ toks[i].t \in {"MULTIPLY", "DIVIDE"}
    THEN LET f == RefFactor(toks, i + 1) IN
         IF ~f.ok THEN RefFail
         ELSE IF toks[i].t = "MULTIPLY"
         THEN RefTermRest(toks, f.i, [acc EXCEPT !.v = acc.v * f.v,
                                                 !.exact = acc.exact /\ f.exact])
         ELSE IF f.v = 0 \/ ~f.exact \/ ~acc.exact \/ Abs(acc.v) % Abs(f.v) # 0
         THEN RefTermRest(toks, f.i, [acc EXCEPT !.v = 0, !.exact = FALSE])
         ELSE RefTermRest(toks, f.i,
                          [acc EXCEPT !.v = (IF (acc.v < 0) = (f.v < 0) THEN 1 ELSE -1)
                                            * (Abs(acc.v) \div Abs(f.v))])
    ELSE [acc EXCEPT !.i = i]

RefTerm(toks, i) ==
    LET f == RefFactor(toks, i) IN
    IF f.ok THEN RefTermRest(toks, f.i, f) ELSE RefFail

RefExprRest(toks, i, acc) ==
    IF i <= Len(toks) /\ toks[i].t \in {"PLUS", "MINUS"}
    THEN LET f == RefTerm(toks, i + 1) IN
         IF ~f.ok THEN RefFail
         ELSE RefExprRest(toks, f.i,
                          [acc EXCEPT !.v = IF toks[i].t = "PLUS" THEN acc.v + f.v ELSE acc.v - f.v,
                                      !.exact = acc.exact /\ f.exact])
    ELSE [acc EXCEPT !.i = i]

RefExpr(toks, i) ==
    LET f == RefTerm(toks, i) IN
    IF f.ok THEN RefExprRest(toks, f.i, f) ELSE RefFail

\* the whole token sequence is one expr
RefEvaluate(toks) ==
    LET e == RefExpr(toks, 1) IN
    IF e.ok /\ e.i = Len(toks) + 1 THEN e ELSE RefFail

\* the value v is the number i
IsValue(v, i) == IsNumber(v) /\ v.n = i * v.d

-----------------------------------------------------------------------------
(* Properties of the Lexer, checked under SpecLexer *)

CursorInvariant ==
    lexer # NoLexer =>
        /\ lexer.user_input = user_input
        /\ 0 <= lexer.pos /\ lexer.pos <= Len(lexer.user_input)
        /\ lexer.pos < Len(lexer.user_input) =>
               lexer.current_char = lexer.user_input[lexer.pos + 1]
        /\ lexer.current_char = None <=> lexer.pos = Len(lexer.user_input)

CursorStep ==
    lexer # NoLexer =>
        LET text == lexer.user_input
            w == WhitespaceRun(text, lexer.pos)
        IN
        /\ lexer'.pos >= lexer.pos
        /\ lexer'.user_input = text
        /\ (LexerGetToken /\ pc' = "lexer" /\ token'.token_type = "INTEGER") =>
               /\ DigitRun(text, lexer.pos + w) >= 1
               /\ lexer'.pos = lexer.pos + w + DigitRun(text, lexer.pos + w)
        /\ (LexerGetToken /\ pc' = "lexer" /\ token'.token_type \notin {"INTEGER", "EOF"}) =>
               lexer'.pos = lexer.pos + w + 1

\* C10: over a non-empty text, after any sequence of get_token calls,
\* 0 <= pos <= len(text), the text is the one given, current_char is text[pos]
\* while pos < len(text) and is None exactly when pos = len(text); no step
\* decreases pos; a call that returns an INTEGER advances pos by the whitespace
\* before the token plus its maximal run of digits, and a call that returns an
\* operator or a parenthesis by the whitespace before it plus one.
C10_CursorInvariant == []CursorInvariant /\ [][CursorStep]_vars

\* the first call, over " 02": one blank skipped, two digits consumed, the
\* cursor at the end of the text
C10_Witness ==
    /\ pc = "lexer" /\ calls = 1
    /\ user_input = <<" ", "0", "2">>
    /\ token = Token("INTEGER", IntV(2))
    /\ lexer.pos = 3 /\ lexer.current_char = None

\* C4: a get_token call made with the cursor on a character that is no
\* whitespace, no decimal digit and none of + - * / ( ) ends by raising an error.
C4_UnrecognizedCharacterFails ==
    [][(LexerGetToken /\ Unrecognized(lexer.current_char)) => pc' = "raised"]_vars

\* C7: constructing the Lexer succeeds for every text, the zero-length one
\* included; a get_token call made with the cursor at or past the end of the
\* text, or over a text of whitespace only, returns the EOF token with no
\* value, raises nothing and leaves the cursor inside the text.
C7_EndOfInputToken ==
    [][/\ LexerNew => pc' = "lexer"
       /\ (LexerGetToken /\ (\/ lexer.pos >= Len(lexer.user_input)
                             \/ AllWhitespace(lexer.user_input))) =>
              /\ pc' = "lexer"
              /\ token' = Token("EOF", NoneV)
              /\ lexer'.pos <= Len(lexer.user_input)]_vars

-----------------------------------------------------------------------------
(* Properties of an evaluation, checked under Spec *)

\* the evaluation of the line is over: main holds expr()'s value, or the
\* process was ended by an exception, or it is caught in get_token's loop
Ended == pc \in {"print", "raised", "loop"}

Blankless(text) == \A i \in 1..Len(text) : ~isspace(text[i])

\* C1: for a text the grammar derives (the lexemes of a derivable token
\* sequence; whitespace is the subject of C3) whose divisions are exact and by
\* non-zero, the evaluation returns the value of the reference evaluator.
C1_EvaluatesLikeReference ==
    (Ended /\ Blankless(user_input) /\ RefEvaluate(RefTokens(user_input)).ok
           /\ RefEvaluate(RefTokens(user_input)).exact) =>
        /\ pc = "print"
        /\ IsValue(output, RefEvaluate(RefTokens(user_input)).v)

\* the tokens are INTEGER, one of + - * /, INTEGER, with no division by zero
BinaryTokens(toks) ==
    /\ Len(toks) = 3
    /\ toks[1].t = "INTEGER" /\ toks[3].t = "INTEGER"
    /\ toks[2].t \in {"PLUS", "MINUS", "MULTIPLY", "DIVIDE"}
    /\ toks[2].t = "DIVIDE" => toks[3].v # 0

\* C2: the evaluation of "a + b", "a - b", "a * b", "a / b" (b # 0), written
\* with or without the blanks around the operator, returns a + b, a - b, a * b
\* and a divided by b.
C2_BinaryOperation ==
    LET toks == RefTokens(user_input)
        a == toks[1].v
        b == toks[3].v
    IN
    (Ended /\ user_input # <<>> /\ ~isspace(user_input[1])
           /\ ~isspace(user_input[Len(user_input)]) /\ BinaryTokens(toks)) =>
        /\ pc = "print"
        /\ IsNumber(output)
        /\ CASE toks[2].t = "PLUS" -> output.n = (a + b) * output.d
             [] toks[2].t = "MINUS" -> output.n = (a - b) * output.d
             [] toks[2].t = "MULTIPLY" -> output.n = (a * b) * output.d
             [] toks[2].t = "DIVIDE" -> output.n * b = a * output.d

\* C3: a well-formed line with whitespace added before its first token, between
\* two tokens or after its last token evaluates as the line without it: the
\* same value is printed and nothing fails.
C3_WhitespaceInsensitive ==
    (Ended /\ prev.printed
           /\ RefEvaluate(RefTokens(prev.user_input)).ok
           /\ RefTokens(user_input) = RefTokens(prev.user_input)) =>
        /\ pc = "print"
        /\ output = prev.output

\* C5: when the top-level expr() has recognised an expression and handed its
\* value to main, the look-ahead is EOF: tokens left over make the evaluation
\* fail instead.
C5_TrailingTokenRejected ==
    (pc = "print" /\ IsNumber(output)) => current_token.token_type = "EOF"

\* the number of left parentheses of text[i..] and depth before it left unclosed
RECURSIVE OpenParens(_, _, _)
OpenParens(text, i, depth) ==
    IF i > Len(text) THEN depth
    ELSE IF text[i] = "(" THEN OpenParens(text, i + 1, depth + 1)
    ELSE IF text[i] = ")" /\ depth > 0 THEN OpenParens(text, i + 1, depth - 1)
    ELSE OpenParens(text, i + 1, depth)

\* C6: when factor has eaten an LPAREN and the inner expr has returned, a
\* look-ahead that is no RPAREN makes eat raise its exception; and no
\* evaluation of a text with an unclosed left parenthesis returns a value.
C6_UnmatchedParenthesis ==
    /\ [](pc = "print" => OpenParens(user_input, 1, 0) = 0)
    /\ [][(FactorClose /\ current_token.token_type # "RPAREN") =>
              (pc' = "raised" /\ err' = "Exception: eat()")]_vars

\* C8: when term has eaten a DIVIDE and the factor after it evaluates to zero,
\* the evaluation is ended by the division-by-zero error.
C8_DivisionByZero ==
    [][(TermCombine /\ Top.token.token_type = "DIVIDE" /\ IsValue(ret, 0)) =>
           (pc' = "raised" /\ err' = "ZeroDivisionError")]_vars

\* C9: factor entered with a look-ahead that is neither INTEGER nor LPAREN
\* raises; it returns nothing.
C9_FactorRejectsOtherTokens ==
    [][(FactorStart /\ current_token.token_type \notin {"INTEGER", "LPAREN"}) =>
           pc' = "raised"]_vars

====
